---- MODULE Spec2Model ----
(***************************************************************************)
(* The TV serial script comparative analyzer (app.py): a Streamlit page    *)
(* whose script is rerun from top to bottom on every widget interaction.   *)
(* State is the widgets' values (the uploaded file objects with their read *)
(* positions, the model selector, the API key) and what the last rerun     *)
(* rendered.  A Python str is modelled as a sequence of tokens, each token *)
(* a TLA+ string holding one character or one literal piece of text; a     *)
(* bytes value is a sequence of integers 0..255.                           *)
(***************************************************************************)
EXTENDS Integers, Sequences, FiniteSets, TLC

VARIABLES
    uploaded_files,  \* app.py:11  list of file objects [name, data, docxOk, paras, pos]
    model_choice,    \* app.py:17  the selectbox's value
    api_key,         \* app.py:18  the text_input's value
    addendum,        \* the shell's optional free-text addendum (spec section 6)
    screen,          \* what the last rerun rendered: info, button, result, exception
    scripts,         \* <<>> or <<the list read_scripts returned in the last rerun>>
    prompt,          \* <<>> or <<the prompt composed in the last rerun>>
    calls,           \* the provider adapters called in the last rerun, in order
    response,        \* <<>> or <<the HTTP response the adapter received>>
    result,          \* <<>> or <<the result string handed to st.markdown>>
    raised,          \* <<>> or <<the exception that escaped the script>>
    prev             \* <<>> or <<[scripts, prompt] of the run just before this one>>

vars == <<uploaded_files, model_choice, api_key, addendum, screen, scripts,
          prompt, calls, response, result, raised, prev>>

\* Largest number of files uploaded at once in the model.
MaxFiles == 2

(***************************************************************************)
(* Strings and bytes                                                       *)
(***************************************************************************)

\* The character of a code point, for the code points the model's files hold.
Chr(cp) ==
    CASE cp = 65  -> "A"
      [] cp = 66  -> "B"
      [] cp = 70  -> "F"
      [] cp = 169 -> "(c)"
      [] cp = 195 -> "A~"
      [] cp = 233 -> "e'"

IsCont(b) == b >= 128 /\ b <= 191

\* bytes.decode("utf-8"): one-, two- and three-byte forms; any other byte
\* sequence raises UnicodeDecodeError.
RECURSIVE Utf8Decode(_)
Utf8Decode(b) ==
    IF b = <<>> THEN [ok |-> TRUE, text |-> <<>>]
    ELSE LET n == Len(b)
             one == b[1] < 128
             two == b[1] >= 194 /\ b[1] <= 223 /\ n >= 2 /\ IsCont(b[2])
             three == b[1] >= 224 /\ b[1] <= 239 /\ n >= 3
                      /\ IsCont(b[2]) /\ IsCont(b[3])
             used == IF one THEN 1 ELSE IF two THEN 2 ELSE 3
             cp == IF one THEN b[1]
                   ELSE IF two THEN (b[1] - 192) * 64 + (b[2] - 128)
                   ELSE (b[1] - 224) * 4096 + (b[2] - 128) * 64 + (b[3] - 128)
         IN IF ~(one \/ two \/ three) THEN [ok |-> FALSE, text |-> <<>>]
            ELSE LET rest == Utf8Decode(SubSeq(b, used + 1, n))
                 IN IF rest.ok
                    THEN [ok |-> TRUE, text |-> <<Chr(cp)>> \o rest.text]
                    ELSE rest

\* bytes.decode("latin1", errors="ignore"): every byte is the code point of
\* the same number, so nothing is ever ignored.
Latin1Decode(b) == [i \in 1..Len(b) |-> Chr(b[i])]

\* str.endswith
EndsWith(s, suffix) ==
    /\ Len(s) >= Len(suffix)
    /\ SubSeq(s, Len(s) - Len(suffix) + 1, Len(s)) = suffix

\* sep.join(parts)
RECURSIVE Join(_, _)
Join(sep, parts) ==
    IF parts = <<>> THEN <<>>
    ELSE IF Len(parts) = 1 THEN parts[1]
    ELSE parts[1] \o sep \o Join(sep, Tail(parts))

Digit == <<"0", "1", "2", "3", "4", "5", "6", "7", "8", "9">>

\* str(n) as an f-string formats a non-negative integer
RECURSIVE Str(_)
Str(n) == IF n < 10 THEN <<Digit[n + 1]>>
          ELSE Str(n \div 10) \o <<Digit[(n % 10) + 1]>>

(***************************************************************************)
(* File objects                                                            *)
(***************************************************************************)

\* f.read(): the bytes from the read position to the end
FileRead(f) == SubSeq(f.data, f.pos + 1, Len(f.data))

\* the file object after f.read(): the position is at the end
AfterRead(f) == [f EXCEPT !.pos = Len(f.data)]

\* the file object after f.seek(0)
AfterSeek0(f) == [f EXCEPT !.pos = 0]

DotTxt == <<".", "t", "x", "t">>
DotDocx == <<".", "d", "o", "c", "x">>

\* The files a user can hand to st.file_uploader(type=['txt','docx']): the
\* uploader compares extensions without regard to case, endswith does not.
\* A .docx file is a package: paras are its paragraphs' texts when it can be
\* opened; Document(f) raises when it cannot (docxOk = FALSE).
Uploadable ==
    { [name |-> <<"a">> \o DotTxt, data |-> <<65, 195, 169>>,
       docxOk |-> FALSE, paras |-> <<>>, pos |-> 0],
      [name |-> <<"b">> \o DotTxt, data |-> <<66, 233>>,
       docxOk |-> FALSE, paras |-> <<>>, pos |-> 0],
      [name |-> <<"c">> \o DotDocx, data |-> <<>>,
       docxOk |-> TRUE, paras |-> << <<"C">>, <<"D">> >>, pos |-> 0],
      [name |-> <<"d">> \o DotDocx, data |-> <<>>,
       docxOk |-> FALSE, paras |-> <<>>, pos |-> 0],
      [name |-> <<"f", ".", "T", "X", "T">>, data |-> <<70>>,
       docxOk |-> FALSE, paras |-> <<>>, pos |-> 0] }

(***************************************************************************)
(* Document ingestion: read_scripts                                        *)
(***************************************************************************)

\* One pass of the loop body up to the append: the value of `text` after the
\* if/elif (<<>> when the name is still unbound), the file object afterwards
\* and the exception raised, if any.
ReadOne(f, text) ==
    IF EndsWith(f.name, DotTxt)
    THEN LET first == Utf8Decode(FileRead(f))
         IN IF first.ok
            THEN [exc |-> <<>>, text |-> <<first.text>>, f |-> AfterRead(f)]
            ELSE [exc |-> <<>>,
                  text |-> <<Latin1Decode(FileRead(AfterSeek0(f)))>>,
                  f |-> AfterRead(AfterSeek0(f))]
    ELSE IF EndsWith(f.name, DotDocx)
    THEN IF f.docxOk
         THEN [exc |-> <<>>, text |-> <<Join(<<"\n">>, f.paras)>>, f |-> f]
         ELSE [exc |-> <<"PackageNotFoundError">>, text |-> text, f |-> f]
    ELSE [exc |-> <<>>, text |-> text, f |-> f]

\* The loop from file i on, with the contents gathered so far and the
\* current binding of `text`.
RECURSIVE ReadLoop(_, _, _, _)
ReadLoop(files, i, contents, text) ==
    IF i > Len(files)
    THEN [exc |-> <<>>, contents |-> contents, files |-> files]
    ELSE LET one == ReadOne(files[i], text)
             after == [files EXCEPT ![i] = one.f]
         IN IF one.exc # <<>>
            THEN [exc |-> one.exc, contents |-> contents, files |-> after]
            ELSE IF one.text = <<>>
            THEN [exc |-> <<"UnboundLocalError">>, contents |-> contents,
                  files |-> after]
            ELSE ReadLoop(after, i + 1, Append(contents, one.text[1]), one.text)

read_scripts(files) == ReadLoop(files, 1, <<>>, <<>>)

(***************************************************************************)
(* Prompt composition                                                      *)
(***************************************************************************)

\* The f-string's text before and after {len(scripts)}
TemplateHead == <<"\nYou are an expert ... comparative analysis** of ">>
TemplateTail == <<" episodes of a Hindi-English TV serial. ... Here are the scripts:\n">>

Separator == <<"\n\n---\n\n">>

ScriptBlockBase0(s, i) == <<"Script ">> \o Str(i - 1) \o <<":\n">> \o s[i]

\* f"Script {i+1}:\n{scripts[i]}", with i counted from 1 here
ScriptBlock(s, i) == <<"Script ">> \o Str(i) \o <<":\n">> \o s[i]

ComposePrompt(s) ==
    TemplateHead \o Str(Len(s)) \o TemplateTail
    \o Join(Separator, [i \in 1..Len(s) |-> ScriptBlock(s, i)])

(***************************************************************************)
(* Provider adapters                                                       *)
(***************************************************************************)

Key(k) == [t |-> "key", k |-> k, i |-> 0]
Idx(n) == [t |-> "idx", k |-> "", i |-> n]

JStr(s) == [t |-> "str", s |-> s]
JArr(e) == [t |-> "arr", e |-> e]
JObj(f) == [t |-> "obj", f |-> f]

\* Python's v[step] on a parsed JSON value
Subscript(v, step) ==
    CASE v.t = "obj" /\ step.t = "key" ->
            IF step.k \in DOMAIN v.f
            THEN [ok |-> TRUE, v |-> v.f[step.k], msg |-> <<>>]
            ELSE [ok |-> FALSE, v |-> v, msg |-> <<"'", step.k, "'">>]
      [] v.t = "obj" /\ step.t = "idx" ->
            [ok |-> FALSE, v |-> v, msg |-> <<"0">>]
      [] v.t = "arr" /\ step.t = "idx" ->
            IF step.i < Len(v.e)
            THEN [ok |-> TRUE, v |-> v.e[step.i + 1], msg |-> <<>>]
            ELSE [ok |-> FALSE, v |-> v, msg |-> <<"list index out of range">>]
      [] v.t = "arr" /\ step.t = "key" ->
            [ok |-> FALSE, v |-> v, msg |-> <<"list indices must be integers or slices, not str">>]
      [] v.t = "str" /\ step.t = "idx" ->
            IF step.i < Len(v.s)
            THEN [ok |-> TRUE, v |-> JStr(<<v.s[step.i + 1]>>), msg |-> <<>>]
            ELSE [ok |-> FALSE, v |-> v, msg |-> <<"string index out of range">>]
      [] v.t = "str" /\ step.t = "key" ->
            [ok |-> FALSE, v |-> v, msg |-> <<"string indices must be integers">>]

RECURSIVE Walk(_, _)
Walk(v, path) ==
    IF path = <<>> THEN [ok |-> TRUE, v |-> v, msg |-> <<>>]
    ELSE LET one == Subscript(v, Head(path))
         IN IF one.ok THEN Walk(one.v, Tail(path)) ELSE one

\* response.json()...: the value at the path, or the exception's message
Extract(resp, path) ==
    IF resp.json = <<>>
    THEN [ok |-> FALSE, v |-> JStr(<<>>), msg |-> <<"Expecting value: line 1 column 1 (char 0)">>]
    ELSE Walk(resp.json[1], path)

GeminiPath == <<Key("candidates"), Idx(0), Key("content"), Key("parts"),
                Idx(0), Key("text")>>
HuggingFacePath == <<Idx(0), Key("generated_text")>>

\* f"Error: {e}\n{response.text}"
ErrorString(msg, resp) == <<"Error: ">> \o msg \o <<"\n">> \o resp.text

\* The body of a REST adapter after requests.post: http is what the post
\* did, either raising or returning a response.
RestAdapterNoCatch(http, path) ==
    IF http.raised
    THEN [exc |-> <<http.msg>>, value |-> <<>>, response |-> <<>>]
    ELSE LET got == Extract(http.resp, path)
         IN IF got.ok
            THEN [exc |-> <<>>, value |-> got.v.s, response |-> <<http.resp>>]
            ELSE [exc |-> <<got.msg>>, value |-> <<>>,
                  response |-> <<http.resp>>]

RestAdapter(http, path) ==
    IF http.raised
    THEN [exc |-> <<http.msg>>, value |-> <<>>, response |-> <<>>]
    ELSE LET got == Extract(http.resp, path)
         IN IF got.ok
            THEN [exc |-> <<>>, value |-> got.v.s, response |-> <<http.resp>>]
            ELSE [exc |-> <<>>, value |-> ErrorString(got.msg, http.resp),
                  response |-> <<http.resp>>]

analyze_with_gemini(p, key, http) == RestAdapter(http, GeminiPath)

analyze_with_huggingface(p, key, http) == RestAdapter(http, HuggingFacePath)

\* sdk is what client.chat.completions.create did: a reply or an exception
analyze_with_gpt4(p, key, sdk) ==
    IF sdk.raised
    THEN [exc |-> <<sdk.msg>>, value |-> <<>>, response |-> <<>>]
    ELSE [exc |-> <<>>, value |-> sdk.content, response |-> <<>>]

(***************************************************************************)
(* What the provider's side can do                                         *)
(***************************************************************************)

GeminiReply ==
    [text |-> <<"{\"candidates\": [{\"content\": {\"parts\": [{\"text\": \"G\"}]}}]}">>,
     json |-> <<JObj([candidates |->
                 JArr(<<JObj([content |->
                    JObj([parts |->
                       JArr(<<JObj([text |-> JStr(<<"G">>)])>>)])])>>)])>>]

HuggingFaceReply ==
    [text |-> <<"[{\"generated_text\": \"H\"}]">>,
     json |-> <<JArr(<<JObj([generated_text |-> JStr(<<"H">>)])>>)>>]

ErrorPayload ==
    [text |-> <<"{\"error\": \"denied\"}">>,
     json |-> <<JObj([error |-> JStr(<<"denied">>)])>>]

NoCandidates ==
    [text |-> <<"{\"candidates\": []}">>,
     json |-> <<JObj([candidates |-> JArr(<<>>)])>>]

NotJson == [text |-> <<"<html>Bad Gateway</html>">>, json |-> <<>>]

Responses == {GeminiReply, HuggingFaceReply, ErrorPayload, NoCandidates, NotJson}

\* requests.post either raises or returns a response
HttpOutcomes ==
    {[raised |-> TRUE, msg |-> <<"ConnectionError">>, resp |-> NotJson]}
    \cup {[raised |-> FALSE, msg |-> <<>>, resp |-> r] : r \in Responses}

\* client.chat.completions.create either raises or returns a completion
SdkOutcomes ==
    {[raised |-> TRUE, msg |-> <<"AuthenticationError">>, content |-> <<>>],
     [raised |-> FALSE, msg |-> <<>>, content |-> <<"O", "K">>]}

(***************************************************************************)
(* The script: gate, run handler, dispatch                                 *)
(***************************************************************************)

ModelOptions == {"GPT-4 (OpenAI)", "Gemini Pro (Google AI)", "Hugging Face"}

InvalidModel == <<"Invalid model selected.">>

\* The adapter the if/elif chain calls for a selector, as [name, outcome];
\* <<>> when no branch matches.
CallFor(choice, p, key, sdk, http) ==
    CASE choice = "GPT-4 (OpenAI)" ->
            <<[name |-> "analyze_with_gpt4",
               out |-> analyze_with_gpt4(p, key, sdk)]>>
      [] choice = "Gemini Pro (Google AI)" ->
            <<[name |-> "analyze_with_gemini",
               out |-> analyze_with_gemini(p, key, http)]>>
      [] choice = "Hugging Face" ->
            <<[name |-> "analyze_with_huggingface",
               out |-> analyze_with_huggingface(p, key, http)]>>
      [] OTHER -> <<>>

\* A dispatch that tries the next provider when the selected one raises.
DispatchFallback(choice, p, key, sdk, http) ==
    LET c == CallFor(choice, p, key, sdk, http)
        d == CallFor("Hugging Face", p, key, sdk, http)
    IN IF c = <<>>
       THEN [calls |-> <<>>, response |-> <<>>, result |-> InvalidModel]
       ELSE IF c[1].out.exc # <<>>
       THEN [calls |-> <<c[1].name, d[1].name>>,
             response |-> d[1].out.response,
             result |-> IF d[1].out.exc # <<>>
                        THEN <<"Error during analysis: ">> \o d[1].out.exc[1]
                        ELSE d[1].out.value]
       ELSE [calls |-> <<c[1].name>>, response |-> c[1].out.response,
             result |-> c[1].out.value]

\* A dispatch whose last branch is a default provider instead of the sentinel.
DispatchDefault(choice, p, key, sdk, http) ==
    LET c == IF choice \in ModelOptions
             THEN CallFor(choice, p, key, sdk, http)
             ELSE CallFor("GPT-4 (OpenAI)", p, key, sdk, http)
    IN [calls |-> <<c[1].name>>, response |-> c[1].out.response,
        result |-> IF c[1].out.exc # <<>>
                   THEN <<"Error during analysis: ">> \o c[1].out.exc[1]
                   ELSE c[1].out.value]

\* The try/except around the if/elif chain
Dispatch(choice, p, key, sdk, http) ==
    LET c == CallFor(choice, p, key, sdk, http)
    IN IF c = <<>>
       THEN [calls |-> <<>>, response |-> <<>>, result |-> InvalidModel]
       ELSE [calls |-> <<c[1].name>>, response |-> c[1].out.response,
             result |-> IF c[1].out.exc # <<>>
                        THEN <<"Error during analysis: ">> \o c[1].out.exc[1]
                        ELSE c[1].out.value]

GateNoKey(files, choice, key) == files # <<>> /\ choice # ""

\* if uploaded_files and model_choice and api_key
Gate(files, choice, key) == files # <<>> /\ choice # "" /\ key # ""

\* One execution of the script from top to bottom: clicked is what
\* st.button returns in this rerun.
Script(files, choice, key, clicked, sdk, http) ==
    LET blank == [files |-> files, screen |-> "info", scripts |-> <<>>,
                  prompt |-> <<>>, calls |-> <<>>, response |-> <<>>,
                  result |-> <<>>, raised |-> <<>>]
    IN IF ~Gate(files, choice, key) THEN blank
       ELSE IF ~clicked THEN [blank EXCEPT !.screen = "button"]
       ELSE LET read == read_scripts(files)
            IN IF read.exc # <<>>
               THEN [blank EXCEPT !.files = read.files, !.screen = "exception",
                                  !.raised = read.exc]
               ELSE LET p == ComposePrompt(read.contents)
                        d == Dispatch(choice, p, key, sdk, http)
                    IN [files |-> read.files, screen |-> "result",
                        scripts |-> <<read.contents>>, prompt |-> <<p>>,
                        calls |-> d.calls, response |-> d.response,
                        result |-> <<d.result>>, raised |-> <<>>]

(***************************************************************************)
(* The page as a state machine: every widget interaction reruns the script *)
(***************************************************************************)

NoSdk == [raised |-> TRUE, msg |-> <<>>, content |-> <<>>]
NoHttp == [raised |-> TRUE, msg |-> <<>>, resp |-> NotJson]

Keys == {"", "sk-1"}
Addenda == {<<>>, <<"Focus on pacing.">>}

\* The variables a rerun of the script sets
Render(out) ==
    /\ uploaded_files' = out.files
    /\ screen' = out.screen
    /\ scripts' = out.scripts
    /\ prompt' = out.prompt
    /\ calls' = out.calls
    /\ response' = out.response
    /\ result' = out.result
    /\ raised' = out.raised

Init ==
    /\ uploaded_files = <<>>
    /\ model_choice = "GPT-4 (OpenAI)"
    /\ api_key = ""
    /\ addendum = <<>>
    /\ screen = "info"
    /\ scripts = <<>>
    /\ prompt = <<>>
    /\ calls = <<>>
    /\ response = <<>>
    /\ result = <<>>
    /\ raised = <<>>
    /\ prev = <<>>

\* The user adds a file in the uploader
AddFile(f) ==
    /\ Len(uploaded_files) < MaxFiles
    /\ Render(Script(Append(uploaded_files, f), model_choice, api_key, FALSE,
                     NoSdk, NoHttp))
    /\ prev' = <<>>
    /\ UNCHANGED <<model_choice, api_key, addendum>>

\* The user removes a file from the uploader
RemoveFile(i) ==
    /\ i \in 1..Len(uploaded_files)
    /\ Render(Script(SubSeq(uploaded_files, 1, i - 1)
                     \o SubSeq(uploaded_files, i + 1, Len(uploaded_files)),
                     model_choice, api_key, FALSE, NoSdk, NoHttp))
    /\ prev' = <<>>
    /\ UNCHANGED <<model_choice, api_key, addendum>>

\* The user picks another entry of the selectbox
SelectModel(m) ==
    /\ m # model_choice
    /\ model_choice' = m
    /\ Render(Script(uploaded_files, m, api_key, FALSE, NoSdk, NoHttp))
    /\ prev' = <<>>
    /\ UNCHANGED <<api_key, addendum>>

\* The user edits the API key field
EnterKey(k) ==
    /\ k # api_key
    /\ api_key' = k
    /\ Render(Script(uploaded_files, model_choice, k, FALSE, NoSdk, NoHttp))
    /\ prev' = <<>>
    /\ UNCHANGED <<model_choice, addendum>>

\* The shell is given another addendum text
EnterAddendum(a) ==
    /\ a # addendum
    /\ addendum' = a
    /\ Render(Script(uploaded_files, model_choice, api_key, FALSE, NoSdk, NoHttp))
    /\ prev' = <<>>
    /\ UNCHANGED <<model_choice, api_key>>

\* The user clicks the run button, which is on the page whenever the gate
\* let the last rerun through.
Run(sdk, http) ==
    /\ screen # "info"
    /\ Render(Script(uploaded_files, model_choice, api_key, TRUE, sdk, http))
    /\ prev' = IF screen = "result"
               THEN <<[scripts |-> scripts[1], prompt |-> prompt[1]]>>
               ELSE <<>>
    /\ UNCHANGED <<model_choice, api_key, addendum>>

Next ==
    \/ \E f \in Uploadable : AddFile(f)
    \/ \E i \in 1..MaxFiles : RemoveFile(i)
    \/ \E m \in ModelOptions : SelectModel(m)
    \/ \E k \in Keys : EnterKey(k)
    \/ \E a \in Addenda : EnterAddendum(a)
    \/ \E sdk \in SdkOutcomes, http \in HttpOutcomes : Run(sdk, http)

Spec == Init /\ [][Next]_vars

\* The dispatch under any selector string, the unlisted ones included
Selectors == ModelOptions \cup {"Claude"}

SelectAny(m) == SelectModel(m)

NextSel ==
    \/ Next
    \/ \E m \in Selectors : SelectAny(m)

SpecSel == Init /\ [][NextSel]_vars

(***************************************************************************)
(* Properties                                                              *)
(***************************************************************************)

Adapters == {"analyze_with_gpt4", "analyze_with_gemini", "analyze_with_huggingface"}

\* The adapter that belongs to the selected provider
SelectedAdapter ==
    IF model_choice = "GPT-4 (OpenAI)" THEN "analyze_with_gpt4"
    ELSE IF model_choice = "Gemini Pro (Google AI)" THEN "analyze_with_gemini"
    ELSE IF model_choice = "Hugging Face" THEN "analyze_with_huggingface"
    ELSE "none"

\* C1: in every run at most one provider adapter is called, at most once,
\* and it is the adapter of the selected provider; a failed call is followed
\* by no second call, neither to the same provider nor to another one.
OneProviderPerRun ==
    /\ Len(calls) <= 1
    /\ \A i \in 1..Len(calls) : calls[i] \in Adapters /\ calls[i] = SelectedAdapter

\* C1 witness: a run whose single Gemini call failed with a network error.
OneProviderPerRunWitness ==
    /\ screen = "result"
    /\ calls = <<"analyze_with_gemini">>
    /\ result = << <<"Error during analysis: ", "ConnectionError">> >>

\* C2: a provider adapter is called only with at least one uploaded document
\* and a non-empty credential; with an empty document list or an empty
\* credential the rerun shows the informational message and has ingested,
\* composed and called nothing.
DispatchPrecondition ==
    /\ (calls # <<>> \/ response # <<>>) => (uploaded_files # <<>> /\ api_key # "")
    /\ (uploaded_files = <<>> \/ api_key = "") =>
          /\ screen = "info"
          /\ scripts = <<>> /\ prompt = <<>> /\ calls = <<>>
          /\ response = <<>> /\ result = <<>> /\ raised = <<>>

\* C2 witness: a run that made a provider call over the network.
DispatchPreconditionWitness ==
    /\ screen = "result"
    /\ calls # <<>>
    /\ response # <<>>
    /\ api_key # ""
    /\ uploaded_files # <<>>

\* C3: with a selector that is none of the three recognized names no adapter
\* is called, nothing escapes the dispatch, and a dispatch that is reached
\* yields the sentinel "Invalid model selected.".
UnrecognizedSelectorSentinel ==
    model_choice \notin ModelOptions =>
        /\ calls = <<>>
        /\ response = <<>>
        /\ screen = "result" => (result = <<InvalidModel>> /\ raised = <<>>)

\* C3 witness: a completed run under the selector "Claude".
UnrecognizedSelectorWitness ==
    /\ model_choice = "Claude"
    /\ screen = "result"
    /\ result = <<InvalidModel>>
    /\ calls = <<>>

\* The reply text a response carries for an adapter: <<the text>> when the
\* body has the shape the adapter expects, <<>> otherwise.
ReplyIn(adapter, r) ==
    IF adapter = "analyze_with_gemini" /\ r = GeminiReply THEN << <<"G">> >>
    ELSE IF adapter = "analyze_with_huggingface" /\ r = HuggingFaceReply
    THEN << <<"H">> >>
    ELSE <<>>

\* C7: when the HTTP call of the Gemini or Hugging Face adapter returns a
\* response, the adapter returns without raising: the extracted reply text
\* when the body has the expected shape, and otherwise a string that starts
\* with "Error" and ends with the raw response body.
MalformedResponseIsErrorString ==
    (response # <<>>) =>
        /\ Len(calls) = 1
        /\ calls[1] \in {"analyze_with_gemini", "analyze_with_huggingface"}
        /\ screen = "result" /\ raised = <<>>
        /\ LET reply == ReplyIn(calls[1], response[1])
               r == result[1]
           IN IF reply # <<>> THEN r = reply[1]
              ELSE /\ r[1] = "Error: "
                   /\ EndsWith(r, response[1].text)
                   /\ Len(r) > 1 + Len(response[1].text)

\* C7 witness: Gemini answered with a body that has no candidates field.
MalformedResponseWitness ==
    /\ calls = <<"analyze_with_gemini">>
    /\ response = <<ErrorPayload>>
    /\ result[1][1] = "Error: "
    /\ EndsWith(result[1], ErrorPayload.text)

\* The pieces of a string between occurrences of a one-token separator
RECURSIVE SplitAt(_, _, _)
SplitAt(s, tok, acc) ==
    IF s = <<>> THEN <<acc>>
    ELSE IF Head(s) = tok THEN <<acc>> \o SplitAt(Tail(s), tok, <<>>)
    ELSE SplitAt(Tail(s), tok, Append(acc, Head(s)))

\* C8: the composed prompt states the number n of scripts in the template
\* and then holds exactly n blocks, the i-th being "Script i:\n" followed by
\* the whole i-th script, i counted from 1 in ingestion order, consecutive
\* blocks joined by the separator line.
PromptHoldsScriptsInOrder ==
    prompt # <<>> =>
        LET s == scripts[1]
            p == prompt[1]
            n == Len(s)
            blocks == SplitAt(SubSeq(p, 4, Len(p)), "\n\n---\n\n", <<>>)
        IN /\ n >= 1
           /\ p[1] = TemplateHead[1]
           /\ p[2] = Digit[n + 1]
           /\ p[3] = TemplateTail[1]
           /\ Len(blocks) = n
           /\ \A i \in 1..n :
                 blocks[i] = <<"Script ", Digit[i + 1], ":\n">> \o s[i]

\* C8 witness: a prompt composed from two scripts with different texts.
PromptHoldsScriptsWitness ==
    /\ prompt # <<>>
    /\ Len(scripts[1]) >= 2
    /\ scripts[1][1] # scripts[1][2]
    /\ scripts[1][1] # <<>>

Unsupported(f) == ~EndsWith(f.name, DotTxt) /\ ~EndsWith(f.name, DotDocx)

\* The text of a document: the decoded bytes of a plain-text file, the
\* paragraphs of a rich document, nothing for an unsupported format.
DerivedText(f) ==
    IF EndsWith(f.name, DotTxt)
    THEN IF Utf8Decode(f.data).ok THEN Utf8Decode(f.data).text
         ELSE Latin1Decode(f.data)
    ELSE IF EndsWith(f.name, DotDocx) THEN Join(<<"\n">>, f.paras)
    ELSE <<>>

Fresh(files) == \A i \in 1..Len(files) : files[i].pos = 0

\* C4: for every non-empty list of uploaded documents read_scripts returns
\* a list of the same length whose i-th element is the text derived from the
\* i-th document (stated for a run that starts on freshly uploaded files).
IngestionPreservesLengthAndOrder ==
    [][(Fresh(uploaded_files) /\ scripts' # <<>>) =>
          /\ Len(scripts'[1]) = Len(uploaded_files)
          /\ \A i \in 1..Len(uploaded_files) :
                scripts'[1][i] = DerivedText(uploaded_files[i])]_vars

\* C5: a document of unsupported format yields an empty string, at any
\* position of the batch, and the run's ingestion completes (no exception)
\* when the batch holds no rich document that cannot be opened.
UnsupportedFormatYieldsEmpty ==
    (/\ screen \in {"result", "exception"}
     /\ \E i \in 1..Len(uploaded_files) : Unsupported(uploaded_files[i])
     /\ \A i \in 1..Len(uploaded_files) :
           EndsWith(uploaded_files[i].name, DotDocx) => uploaded_files[i].docxOk)
    => /\ screen = "result"
       /\ \A i \in 1..Len(uploaded_files) :
             Unsupported(uploaded_files[i]) => scripts[1][i] = <<>>

\* C6: once a run is started nothing escapes as an unhandled exception: the
\* run reaches the presenter with a result string.
NoFailureEscapes ==
    /\ screen # "exception"
    /\ raised = <<>>
    /\ screen \notin {"info", "button"} => result # <<>>

\* whether string s holds string t as a contiguous piece
Contains(s, t) ==
    \E k \in 0..(Len(s) - Len(t)) : SubSeq(s, k + 1, k + Len(t)) = t

\* C9: when a non-empty addendum is provided the composed prompt contains
\* it; when the addendum is empty the prompt has no addendum section.
PromptContainsAddendum ==
    (prompt # <<>> /\ addendum # <<>>) => Contains(prompt[1], addendum)

\* C10: two runs in a row on the same file objects, selector and credential
\* produce the same decoded scripts and the same composed prompt.
RunsAreIndependent ==
    (prev # <<>> /\ scripts # <<>>) =>
        /\ prev[1].scripts = scripts[1]
        /\ prev[1].prompt = prompt[1]

====
